---- MODULE Spec2Model ----
(***************************************************************************)
(* Model of BreakoutTradingBot (src/ibkr-breakout-trading-bot.py).         *)
(*                                                                         *)
(* Three threads of control are modelled:                                  *)
(*   - the strategy loop (run_live_strategy and everything it calls),      *)
(*     one step per statement group, so that the other two can interleave; *)
(*   - the broker listener thread delivering nextValidId;                  *)
(*   - a controlling thread calling stop().                                *)
(* Prices are floats in the program; the model uses positive integers and  *)
(* keeps the mean of the historical ranges as an exact fraction.           *)
(*                                                                         *)
(* Specifications:                                                         *)
(*   Spec          the armed program as written (loop and listener);       *)
(*   SpecStop      the same with stop() callable while the loop runs,      *)
(*   FairSpecStop  and with the loop thread scheduled fairly;              *)
(*   SpecManage    the loop started with a held position of any target     *)
(*                 and stop-loss;                                          *)
(*   SpecDetect    check_breakout alone on any window and candle;          *)
(*   SpecGap       the armed program on a connected session with the       *)
(*                 listener's error callback as well;                      *)
(*   SpecRun       run_strategy in either mode, armed or simulation,       *)
(*   FairSpecRun   and with its thread scheduled fairly.                   *)
(***************************************************************************)
EXTENDS Integers, Sequences, FiniteSets, TLC

VARIABLES
    nextOrderId,       \* self.nextOrderId (None until the handshake)
    positions,         \* self.positions, a dict: a set of entries, one key each
    historical_data,   \* self.historical_data: symbol -> window (<<>> = no key)
    current_day_data,  \* self.current_day_data: symbol -> rows (<<>> = no key)
    stop_event,        \* self.stop_event
    connected,         \* the broker session is connected
    db_open,           \* self.db_connection is open
    orders,            \* orders the broker gateway was handed, in dispatch order
    ledger,            \* rows of the trades table, in insertion order
    pc,                \* position of the strategy loop
    idx,               \* index of the loop's current symbol in self.symbols
    new_candle,        \* run_live_strategy's local new_candle
    breakout,          \* value returned by the last check_breakout call
    po,                \* arguments of the place_order call in progress
    loaded,            \* value of self.nextOrderId read by `+= 1`
    wait_i,            \* loop variable of the inter-cycle wait
    fed,               \* candles the market-data provider has returned so far
    handshakes,        \* nextValidId callbacks delivered so far
    is_armed,          \* self.is_armed: live loop (TRUE) or simulation (FALSE)
    period             \* simulation periods run_simulation has started

vars == <<nextOrderId, positions, historical_data, current_day_data, stop_event,
          connected, db_open, orders, ledger, pc, idx, new_candle, breakout, po,
          loaded, wait_i, fed, handshakes, is_armed, period>>

----------------------------------------------------------------------------
(* Bounds of the model *)

\* length of the historical windows check_breakout is tried on
MaxWindow == 3

\* candles the market-data provider returns in one run
MaxCandles == 2
\* nextValidId callbacks the broker delivers once the strategy loop runs
MaxHandshakes == 1
\* iterations of the inter-cycle wait (range(300) in the program)
WaitSeconds == 2
\* periods run_simulation runs (range(100) in the program)
simulation_periods == 3

(* Program constants *)

\* self.nextOrderId = None
None == 0
\* self.max_investment
max_investment == 200

\* self.symbols, in file order
symbols == <<"AAA", "BBB">>
Symbols == {symbols[i] : i \in DOMAIN symbols}

\* first identifier a fresh broker session hands out
FirstOrderId == None + 1

----------------------------------------------------------------------------
(* Data *)

Candle(h, l, c) == [High |-> h, Low |-> l, Close |-> c]

\* fetch_real_time_data returning None
NoCandle == Candle(None, None, None)

\* place_order is not running
NoCall == [action |-> "none", quantity |-> 0]

\* closing prices of the candles the market-data provider can return
FeedPrices == {1, 4, 5, 201}

\* candles the market-data provider can return: wide ones from the lowest price
\* up to the close, and one narrow one
FeedCandles == {Candle(c, 1, c) : c \in FeedPrices} \cup {Candle(4, 4, 4)}

\* opening range 3..1 above the prior close 1, mean range 1
GapWindow == <<Candle(3, 1, 3), Candle(1, 1, 1)>>
\* zero-width opening range above the prior close, mean range 0
FlatWindow == <<Candle(3, 3, 3), Candle(1, 1, 1)>>

\* what request_historical_data can leave for a symbol (<<>>: nothing stored)
HistoryChoices == {<<>>, GapWindow, FlatWindow}

----------------------------------------------------------------------------
(* dict operations on self.positions *)

HasKey(d, s) == \E p \in d : p.symbol = s

Get(d, s) == CHOOSE p \in d : p.symbol = s

\* d[s] = v without dropping the entry already stored under s
DictSetKeepOld(d, s, v) == d \cup {v}

\* d = {s: v}: the other keys are dropped
DictSetAlone(d, s, v) == {v}

\* d[s] = v
DictSet(d, s, v) == {p \in d : p.symbol # s} \cup {v}

\* del d[s]
DictDel(d, s) == {p \in d : p.symbol # s}

----------------------------------------------------------------------------
(* Pure helpers *)

RECURSIVE SumSizes(_)
SumSizes(data) ==
    IF data = <<>> THEN 0
    ELSE (data[1].High - data[1].Low) + SumSizes(Tail(data))

\* the mean of High - Low over the window, as the fraction num/den
calculate_average_candle_size(hd, symbol) ==
    IF hd[symbol] # <<>>
    THEN [num |-> SumSizes(hd[symbol]), den |-> Len(hd[symbol])]
    ELSE [num |-> 0, den |-> 1]

\* size >= 2 * avg, for size an integer and avg a fraction with den > 0
AtLeastTwice(size, avg) == size * avg.den >= 2 * avg.num

\* check_breakout letting an opening high equal to the prior close through
check_breakout_gap_off_by_one(hd, cdd, symbol, current_candle) ==
    IF cdd[symbol] = <<>> \/ hd[symbol] = <<>>
    THEN FALSE
    ELSE LET data == hd[symbol]
             opening_15min == data[1]
             prev_day_close == data[Len(data)].Close
             avg_candle_size == calculate_average_candle_size(hd, symbol)
         IN  IF opening_15min.High < prev_day_close
             THEN FALSE
             ELSE /\ current_candle.Close > opening_15min.High
                  /\ AtLeastTwice(current_candle.High - current_candle.Low,
                                  avg_candle_size)

\* check_breakout testing only for current-day data before reading the window
check_breakout_window_unchecked(hd, cdd, symbol, current_candle) ==
    IF cdd[symbol] = <<>>
    THEN FALSE
    ELSE IF hd[symbol] = <<>>
    THEN TRUE
    ELSE LET data == hd[symbol]
             opening_15min == data[1]
             prev_day_close == data[Len(data)].Close
             avg_candle_size == calculate_average_candle_size(hd, symbol)
         IN  IF opening_15min.High <= prev_day_close
             THEN FALSE
             ELSE /\ current_candle.Close > opening_15min.High
                  /\ AtLeastTwice(current_candle.High - current_candle.Low,
                                  avg_candle_size)

check_breakout(hd, cdd, symbol, current_candle) ==
    IF cdd[symbol] = <<>> \/ hd[symbol] = <<>>
    THEN FALSE
    ELSE LET data == hd[symbol]
             opening_15min == data[1]
             prev_day_close == data[Len(data)].Close
             avg_candle_size == calculate_average_candle_size(hd, symbol)
         IN  IF opening_15min.High <= prev_day_close
             THEN FALSE
             ELSE /\ current_candle.Close > opening_15min.High
                  /\ AtLeastTwice(current_candle.High - current_candle.Low,
                                  avg_candle_size)

\* int(self.max_investment / entry_price), entry_price > 0
Quantity(entry_price) == max_investment \div entry_price

\* the dict on_new_candle stores for a breakout candle
NewPosition(hd, symbol, candle, quantity) ==
    LET opening_15min == hd[symbol][1]
    IN  [symbol    |-> symbol,
         quantity  |-> quantity,
         entry     |-> candle.Close,
         target    |-> opening_15min.High + (opening_15min.High - opening_15min.Low),
         stop_loss |-> opening_15min.Low,
         exit_reason |-> "None"]

\* self.current_day_data[symbol].iloc[-1]['Close']
LastClose(cdd, symbol) == cdd[symbol][Len(cdd[symbol])].Close

\* data.iloc[-1]
Last(data) == data[Len(data)]

\* the symbol the loop is processing
sym == symbols[idx]

----------------------------------------------------------------------------
(* Initial state: after __init__, start(), load_symbols and the            *)
(* request_historical_data calls of run_strategy. connect() may have       *)
(* failed; if it succeeded, the listener thread started by start() may or  *)
(* may not have delivered the first nextValidId by then.                   *)

\* nothing ordered or logged yet, no stop requested
InitLoop ==
    /\ stop_event = FALSE
    /\ db_open = TRUE
    /\ orders = <<>>
    /\ ledger = <<>>
    /\ idx = 1
    /\ breakout = FALSE
    /\ po = NoCall
    /\ loaded = None
    /\ wait_i = 0
    /\ fed = 0
    /\ handshakes = 0
    /\ period = 0

\* run_live_strategy is about to start: nothing fetched yet
InitStart ==
    /\ is_armed = TRUE
    /\ pc = "while"
    /\ new_candle = NoCandle
    /\ current_day_data = [s \in Symbols |-> <<>>]

Init ==
    /\ InitLoop
    /\ InitStart
    /\ connected \in BOOLEAN
    /\ nextOrderId \in IF connected THEN {None, FirstOrderId} ELSE {None}
    /\ positions = {}
    /\ historical_data \in [Symbols -> HistoryChoices]

\* positions manage_trade may be handed, whatever created them
HeldPositions ==
    [symbol : Symbols, quantity : {50}, entry : {4}, target : {4, 5},
     stop_loss : {1, 4}, exit_reason : {"None"}]

\* manage_trade on any held position: a connected session holding no position
\* or one position of HeldPositions
InitManage ==
    /\ InitLoop
    /\ InitStart
    /\ connected = TRUE
    /\ nextOrderId \in {None, FirstOrderId}
    /\ positions \in {{}} \cup {{p} : p \in HeldPositions}
    /\ historical_data \in [Symbols -> {<<>>, GapWindow}]

\* prices of the candles check_breakout is tried on
DetectPrices == {1, 2, 3}

DetectCandles ==
    {c \in [High : DetectPrices, Low : DetectPrices, Close : DetectPrices] :
        c.Low <= c.Close /\ c.Close <= c.High}

\* the sequences over S of length 1..n
SeqsUpTo(S, n) == UNION {[1..k -> S] : k \in 1..n}

DetectWindows == SeqsUpTo(DetectCandles, MaxWindow)

\* check_breakout on any window and candle: on_new_candle is about to call it
\* for the first symbol, whose window and current-day data may be missing
InitDetect ==
    /\ InitLoop
    /\ is_armed = TRUE
    /\ connected = TRUE
    /\ nextOrderId = FirstOrderId
    /\ positions = {}
    /\ historical_data \in
           {[s \in Symbols |-> IF s = symbols[1] THEN w ELSE <<>>] :
               w \in DetectWindows \cup {<<>>}}
    /\ new_candle \in DetectCandles
    /\ current_day_data \in
           {[s \in Symbols |-> IF s = symbols[1] THEN d ELSE <<>>] :
               d \in {<<>>, <<new_candle>>}}
    /\ pc = "check"

----------------------------------------------------------------------------
(* The strategy loop: run_live_strategy *)

loopVars == <<pc, idx, new_candle, breakout, po, loaded, wait_i, fed>>
dataVars == <<positions, historical_data, current_day_data, orders, ledger>>
sessionVars == <<stop_event, connected, db_open, handshakes>>
modeVars == <<is_armed, period>>

\* while not self.stop_event.is_set():
WhileTest ==
    /\ pc = "while"
    /\ IF stop_event
       THEN pc' = "done" /\ UNCHANGED idx
       ELSE pc' = "for" /\ idx' = 1
    /\ UNCHANGED modeVars
    /\ UNCHANGED <<nextOrderId, dataVars, sessionVars, new_candle, breakout, po,
                   loaded, wait_i, fed>>

\* new_candle = self.fetch_real_time_data(symbol), data.iloc[-1] returned
FetchCandle ==
    /\ is_armed
    /\ pc = "for"
    /\ idx <= Len(symbols)
    /\ fed < MaxCandles
    /\ \E c \in FeedCandles : new_candle' = c
    /\ fed' = fed + 1
    /\ pc' = "if_candle"
    /\ UNCHANGED modeVars
    /\ UNCHANGED <<nextOrderId, dataVars, sessionVars, idx, breakout, po, loaded,
                   wait_i>>

\* new_candle = self.fetch_real_time_data(symbol), None returned (empty or failed)
FetchNothing ==
    /\ is_armed
    /\ pc = "for"
    /\ idx <= Len(symbols)
    /\ new_candle' = NoCandle
    /\ pc' = "if_candle"
    /\ UNCHANGED modeVars
    /\ UNCHANGED <<nextOrderId, dataVars, sessionVars, idx, breakout, po, loaded,
                   wait_i, fed>>

\* a missing candle ending the cycle's for loop, as a break would
SkipRestOfCycle ==
    /\ pc = "if_candle"
    /\ new_candle = NoCandle
    /\ idx' = Len(symbols) + 1
    /\ pc' = "for"
    /\ UNCHANGED modeVars
    /\ UNCHANGED <<nextOrderId, dataVars, sessionVars, new_candle, breakout, po,
                   loaded, wait_i, fed>>

\* if new_candle is not None: is false; on to the next symbol
SkipSymbol ==
    /\ pc = "if_candle"
    /\ new_candle = NoCandle
    /\ idx' = idx + 1
    /\ pc' = "for"
    /\ UNCHANGED modeVars
    /\ UNCHANGED <<nextOrderId, dataVars, sessionVars, new_candle, breakout, po,
                   loaded, wait_i, fed>>

\* the symbols of the cycle are exhausted; the wait begins
ForEnd ==
    /\ is_armed
    /\ pc = "for"
    /\ idx > Len(symbols)
    /\ wait_i' = 0
    /\ pc' = "wait"
    /\ UNCHANGED modeVars
    /\ UNCHANGED <<nextOrderId, dataVars, sessionVars, idx, new_candle, breakout,
                   po, loaded, fed>>

\* the wait sleeping out its full interval without looking at stop_event
WaitIgnoresStop ==
    /\ pc = "wait"
    /\ IF wait_i < WaitSeconds
       THEN wait_i' = wait_i + 1 /\ pc' = "wait"
       ELSE pc' = "while" /\ UNCHANGED wait_i
    /\ UNCHANGED modeVars
    /\ UNCHANGED <<nextOrderId, dataVars, sessionVars, idx, new_candle, breakout,
                   po, loaded, fed>>

\* one iteration of: for _ in range(300): if stop: break; time.sleep(1)
Wait ==
    /\ pc = "wait"
    /\ IF wait_i < WaitSeconds /\ ~stop_event
       THEN wait_i' = wait_i + 1 /\ pc' = "wait"
       ELSE pc' = "while" /\ UNCHANGED wait_i
    /\ UNCHANGED modeVars
    /\ UNCHANGED <<nextOrderId, dataVars, sessionVars, idx, new_candle, breakout,
                   po, loaded, fed>>

----------------------------------------------------------------------------
(* on_new_candle *)

\* the candle is appended to self.current_day_data[symbol]
AppendCandle ==
    /\ pc = "if_candle"
    /\ new_candle # NoCandle
    /\ current_day_data' =
           [current_day_data EXCEPT ![sym] = Append(@, new_candle)]
    /\ pc' = "check"
    /\ UNCHANGED modeVars
    /\ UNCHANGED <<nextOrderId, positions, historical_data, orders, ledger,
                   sessionVars, idx, new_candle, breakout, po, loaded, wait_i, fed>>

\* check_breakout consulted only for symbols no SELL was logged for yet
CheckBreakoutWithCooldown ==
    /\ pc = "check"
    /\ breakout' = (/\ \A i \in DOMAIN ledger :
                         ledger[i].symbol = sym => ledger[i].order_type # "SELL"
                    /\ check_breakout(historical_data, current_day_data, sym,
                                      new_candle))
    /\ pc' = IF breakout' THEN "enter" ELSE "manage"
    /\ UNCHANGED modeVars
    /\ UNCHANGED <<nextOrderId, dataVars, sessionVars, idx, new_candle, po, loaded,
                   wait_i, fed>>

\* if self.check_breakout(symbol, candle):
CheckBreakout ==
    /\ pc = "check"
    /\ breakout' = check_breakout(historical_data, current_day_data, sym, new_candle)
    /\ pc' = IF breakout' THEN "enter" ELSE "manage"
    /\ UNCHANGED modeVars
    /\ UNCHANGED <<nextOrderId, dataVars, sessionVars, idx, new_candle, po, loaded,
                   wait_i, fed>>

\* quantity = int(...); self.place_order(symbol, "BUY", quantity) is called
Enter ==
    /\ pc = "enter"
    /\ po' = [action |-> "BUY", quantity |-> Quantity(new_candle.Close)]
    /\ pc' = "place"
    /\ UNCHANGED modeVars
    /\ UNCHANGED <<nextOrderId, dataVars, sessionVars, idx, new_candle, breakout,
                   loaded, wait_i, fed>>

\* self.positions[symbol] = {...}
StorePosition ==
    /\ pc = "store"
    /\ positions' = DictSet(positions, sym,
                            NewPosition(historical_data, sym, new_candle, po.quantity))
    /\ po' = NoCall
    /\ breakout' = FALSE
    /\ pc' = "manage"
    /\ UNCHANGED modeVars
    /\ UNCHANGED <<nextOrderId, historical_data, current_day_data, orders, ledger,
                   sessionVars, idx, new_candle, loaded, wait_i, fed>>

----------------------------------------------------------------------------
(* manage_trade *)

\* manage_trade with the stop-loss test ahead of the target test
ExitReasonStopFirst(position, current_price) ==
    IF current_price <= position.stop_loss THEN "Stop loss hit"
    ELSE IF current_price >= position.target THEN "Target reached"
    ELSE "None"

\* manage_trade closing only above the target, not on it
ExitReasonAboveTarget(position, current_price) ==
    IF current_price > position.target THEN "Target reached"
    ELSE IF current_price <= position.stop_loss THEN "Stop loss hit"
    ELSE "None"

\* the exit reason manage_trade chooses for a position at a price ("None": stay)
ExitReason(position, current_price) ==
    IF current_price >= position.target THEN "Target reached"
    ELSE IF current_price <= position.stop_loss THEN "Stop loss hit"
    ELSE "None"

\* manage_trade up to its return or its place_order call
Manage ==
    /\ pc = "manage"
    /\ IF ~HasKey(positions, sym)
       THEN /\ idx' = idx + 1
            /\ pc' = "for"
            /\ new_candle' = NoCandle
            /\ UNCHANGED <<positions, po>>
       ELSE LET position == Get(positions, sym)
                reason == ExitReason(position, LastClose(current_day_data, sym))
            IN  IF reason = "None"
                THEN /\ idx' = idx + 1
                     /\ pc' = "for"
                     /\ new_candle' = NoCandle
                     /\ UNCHANGED <<positions, po>>
                ELSE /\ positions' = DictSet(positions, sym,
                                         [position EXCEPT !.exit_reason = reason])
                     /\ po' = [action |-> "SELL", quantity |-> position.quantity]
                     /\ pc' = "place"
                     /\ UNCHANGED <<idx, new_candle>>
    /\ UNCHANGED modeVars
    /\ UNCHANGED <<nextOrderId, historical_data, current_day_data, orders, ledger,
                   sessionVars, breakout, loaded, wait_i, fed>>

\* del self.positions[symbol], and manage_trade and on_new_candle return
DelPosition ==
    /\ pc = "del"
    /\ positions' = DictDel(positions, sym)
    /\ po' = NoCall
    /\ idx' = idx + 1
    /\ new_candle' = NoCandle
    /\ pc' = "for"
    /\ UNCHANGED modeVars
    /\ UNCHANGED <<nextOrderId, historical_data, current_day_data, orders, ledger,
                   sessionVars, breakout, loaded, wait_i, fed>>

----------------------------------------------------------------------------
(* place_order *)

\* the order handed to the broker
NewOrder(id, symbol, call) ==
    [id |-> id, symbol |-> symbol, action |-> call.action, quantity |-> call.quantity]

\* self.placeOrder(self.nextOrderId, contract, order): a disconnected client
\* reports an error and sends nothing
PlaceOrder ==
    /\ pc = "place"
    /\ orders' = IF connected
                 THEN Append(orders, NewOrder(nextOrderId, sym, po))
                 ELSE orders
    /\ pc' = "load"
    /\ UNCHANGED modeVars
    /\ UNCHANGED <<nextOrderId, positions, historical_data, current_day_data, ledger,
                   sessionVars, idx, new_candle, breakout, po, loaded, wait_i, fed>>

\* self.placeOrder(None, ...): client versions that refuse to encode None raise
PlaceOrderRaises ==
    /\ pc = "place"
    /\ connected
    /\ nextOrderId = None
    /\ pc' = "crashed"
    /\ UNCHANGED modeVars
    /\ UNCHANGED <<nextOrderId, dataVars, sessionVars, idx, new_candle, breakout, po,
                   loaded, wait_i, fed>>

\* self.nextOrderId += 1, the read; None + 1 raises TypeError
LoadOrderId ==
    /\ pc = "load"
    /\ IF nextOrderId = None
       THEN pc' = "crashed" /\ UNCHANGED loaded
       ELSE pc' = "store_id" /\ loaded' = nextOrderId
    /\ UNCHANGED modeVars
    /\ UNCHANGED <<nextOrderId, dataVars, sessionVars, idx, new_candle, breakout, po,
                   wait_i, fed>>

\* self.nextOrderId += 1, the write
StoreOrderId ==
    /\ pc = "store_id"
    /\ nextOrderId' = loaded + 1
    /\ loaded' = None
    /\ pc' = "log"
    /\ UNCHANGED modeVars
    /\ UNCHANGED <<dataVars, sessionVars, idx, new_candle, breakout, po, wait_i, fed>>

\* the row log_order inserts
LedgerRow(symbol, order_type, price, quantity, reason) ==
    [symbol |-> symbol, order_type |-> order_type, price |-> price,
     quantity |-> quantity, reason |-> reason]

\* the reason place_order would pass if the position were deleted before the
\* SELL is logged
OrderReasonAfterDel(ps, symbol, action) ==
    IF action = "BUY" THEN "Breakout found" ELSE "Unknown"

\* the reason place_order passes to log_order
OrderReason(ps, symbol, action) ==
    IF action = "BUY" THEN "Breakout found"
    ELSE IF HasKey(ps, symbol) THEN Get(ps, symbol).exit_reason
    ELSE "Unknown"

\* self.log_order(...) and place_order returns; a closed connection raises
LogOrder ==
    /\ pc = "log"
    /\ IF db_open
       THEN /\ ledger' = Append(ledger,
                   LedgerRow(sym, po.action, LastClose(current_day_data, sym),
                             po.quantity, OrderReason(positions, sym, po.action)))
            /\ pc' = IF po.action = "BUY" THEN "store" ELSE "del"
       ELSE /\ pc' = "crashed"
            /\ UNCHANGED ledger
    /\ UNCHANGED modeVars
    /\ UNCHANGED <<nextOrderId, positions, historical_data, current_day_data, orders,
                   sessionVars, idx, new_candle, breakout, po, loaded, wait_i, fed>>

----------------------------------------------------------------------------
(* The listener thread and the controlling thread *)

RECURSIVE MaxId(_)
MaxId(received) ==
    IF received = <<>> THEN None
    ELSE LET m == MaxId(Tail(received))
         IN  IF received[1].id > m THEN received[1].id ELSE m

\* nextValidId(orderId): the broker announces the identifier after the highest
\* one among the orders it has received so far: all of those dispatched, or all
\* but the last one, which may still be on its way
nextValidId ==
    /\ connected
    /\ handshakes < MaxHandshakes
    /\ \E k \in {n \in 0..Len(orders) : n + 1 >= Len(orders)} :
           nextOrderId' = MaxId(SubSeq(orders, 1, k)) + 1
    /\ handshakes' = handshakes + 1
    /\ UNCHANGED modeVars
    /\ UNCHANGED <<dataVars, stop_event, connected, db_open, loopVars>>

\* error(reqId, errorCode, errorString): the text is printed
error == UNCHANGED vars

\* stop()
stop ==
    /\ ~stop_event
    /\ stop_event' = TRUE
    /\ connected' = FALSE
    /\ db_open' = FALSE
    /\ UNCHANGED modeVars
    /\ UNCHANGED <<nextOrderId, dataVars, handshakes, loopVars>>

----------------------------------------------------------------------------
(* run_simulation *)

\* a window in ticks fine enough for a half-percent move to show: opening
\* range 601..599 above the prior close 600, mean range 1
SimWindow == <<Candle(601, 599, 600), Candle(600, 600, 600)>>

Max2(a, b) == IF a >= b THEN a ELSE b
Min2(a, b) == IF a <= b THEN a ELSE b

\* outcomes of the three random.random() calls of simulate_new_candle, as the
\* ticks by which the close leaves the open, the high leaves the larger and
\* the low leaves the smaller of open and close
SimDraws == {<<-2, 0, 0>>, <<0, 1, 1>>, <<2, 0, 0>>}

\* the candles simulate_new_candle can return after last_candle: each factor
\* is 1 + x with x in [-0.005, 0.005), [0, 0.005) and (-0.005, 0]; Open and
\* Volume are read by nothing and left out
simulate_new_candle(last_candle) ==
    LET open_price == last_candle.Close
        drawn == {Candle(Max2(open_price, open_price + d[1]) + d[2],
                         Min2(open_price, open_price + d[1]) - d[3],
                         open_price + d[1]) : d \in SimDraws}
    IN  {c \in drawn :
            /\ 1000 * c.Close >= 995 * open_price
            /\ 1000 * c.Close < 1005 * open_price
            /\ c.High >= Max2(open_price, c.Close)
            /\ 1000 * c.High < 1005 * Max2(open_price, c.Close)
            /\ c.Low <= Min2(open_price, c.Close)
            /\ 1000 * c.Low > 995 * Min2(open_price, c.Close)}

\* range(simulation_periods + 1): one period too many
SimRangeOneMore ==
    /\ pc = "range"
    /\ IF period <= simulation_periods
       THEN period' = period + 1 /\ idx' = 1 /\ pc' = "for"
       ELSE pc' = "done" /\ UNCHANGED <<period, idx>>
    /\ UNCHANGED <<is_armed, nextOrderId, dataVars, sessionVars, new_candle,
                   breakout, po, loaded, wait_i, fed>>

\* for _ in range(simulation_periods): the next period, or the return
SimRange ==
    /\ pc = "range"
    /\ IF period < simulation_periods
       THEN period' = period + 1 /\ idx' = 1 /\ pc' = "for"
       ELSE pc' = "done" /\ UNCHANGED <<period, idx>>
    /\ UNCHANGED <<is_armed, nextOrderId, dataVars, sessionVars, new_candle,
                   breakout, po, loaded, wait_i, fed>>

\* the synthesized candle handed to on_new_candle without being appended to
\* the window first
SimCandleNotAppended ==
    /\ ~is_armed
    /\ pc = "for"
    /\ idx <= Len(symbols)
    /\ historical_data[sym] # <<>>
    /\ \E c \in simulate_new_candle(Last(historical_data[sym])) : new_candle' = c
    /\ pc' = "if_candle"
    /\ UNCHANGED <<modeVars, nextOrderId, dataVars, sessionVars, idx, breakout, po,
                   loaded, wait_i, fed>>

\* the symbol has a window: a candle is synthesized after the window's last
\* one, appended to the window, and on_new_candle is called with it
SimCandle ==
    /\ ~is_armed
    /\ pc = "for"
    /\ idx <= Len(symbols)
    /\ historical_data[sym] # <<>>
    /\ \E c \in simulate_new_candle(Last(historical_data[sym])) :
          /\ new_candle' = c
          /\ historical_data' = [historical_data EXCEPT ![sym] = Append(@, c)]
    /\ pc' = "if_candle"
    /\ UNCHANGED <<modeVars, nextOrderId, positions, current_day_data, orders,
                   ledger, sessionVars, idx, breakout, po, loaded, wait_i, fed>>

\* the symbol has no window: "No historical data available", next symbol
SimNoData ==
    /\ ~is_armed
    /\ pc = "for"
    /\ idx <= Len(symbols)
    /\ historical_data[sym] = <<>>
    /\ idx' = idx + 1
    /\ UNCHANGED <<modeVars, nextOrderId, dataVars, sessionVars, pc, new_candle,
                   breakout, po, loaded, wait_i, fed>>

\* the symbols of the period are exhausted: "Completed simulation period"
SimForEnd ==
    /\ ~is_armed
    /\ pc = "for"
    /\ idx > Len(symbols)
    /\ pc' = "range"
    /\ UNCHANGED <<modeVars, nextOrderId, dataVars, sessionVars, idx, new_candle,
                   breakout, po, loaded, wait_i, fed>>

----------------------------------------------------------------------------

Loop ==
    \/ WhileTest \/ FetchCandle \/ FetchNothing \/ SkipSymbol \/ ForEnd \/ Wait
    \/ AppendCandle \/ CheckBreakout \/ Enter \/ StorePosition
    \/ Manage \/ DelPosition
    \/ PlaceOrder \/ PlaceOrderRaises \/ LoadOrderId \/ StoreOrderId \/ LogOrder

\* The program as written: the main thread calls stop() only after
\* run_strategy has returned, which the live loop does only once stop_event
\* is set, so no stop() reaches a running live loop.
Next == Loop \/ nextValidId

Spec == Init /\ [][Next]_vars

\* The live loop with a controlling thread that may call stop() at any time,
\* the first symbol having a window that lets breakouts happen.
InitStop ==
    /\ Init
    /\ historical_data = [s \in Symbols |-> IF s = symbols[1] THEN GapWindow ELSE <<>>]

NextStop == Next \/ stop

SpecStop == InitStop /\ [][NextStop]_vars

\* run_strategy in either mode: is_armed picks run_live_strategy or
\* run_simulation. The armed run has a window for the first symbol only; the
\* simulation has one for any of the symbols.
InitRun ==
    /\ InitLoop
    /\ is_armed \in BOOLEAN
    /\ pc = (IF is_armed THEN "while" ELSE "range")
    /\ new_candle = NoCandle
    /\ current_day_data = [s \in Symbols |-> <<>>]
    /\ connected = TRUE
    /\ nextOrderId \in {None, FirstOrderId}
    /\ positions = {}
    /\ historical_data \in
           IF is_armed
           THEN {[s \in Symbols |-> IF s = symbols[1] THEN GapWindow ELSE <<>>]}
           ELSE [Symbols -> {<<>>, SimWindow}]

SimLoop == SimRange \/ SimCandle \/ SimNoData \/ SimForEnd

NextRun == Next \/ SimLoop

SpecRun == InitRun /\ [][NextRun]_vars

\* the thread of run_strategy keeps running while it has a step to take
FairSpecRun == SpecRun /\ WF_vars(Loop \/ SimLoop)

\* check_breakout alone, on any window and candle
NextDetect == CheckBreakout

SpecDetect == InitDetect /\ [][NextDetect]_vars

\* manage_trade on held positions of any target and stop-loss
SpecManage == InitManage /\ [][Next]_vars

\* The armed program on a connected session, every symbol having either no
\* window or one that lets breakouts happen, with the listener's error
\* callback delivered at any time as well.
InitGap ==
    /\ Init
    /\ connected = TRUE
    /\ historical_data \in [Symbols -> {<<>>, GapWindow}]

NextGap == Next \/ error

SpecGap == InitGap /\ [][NextGap]_vars

\* the strategy loop's thread keeps running while it has a step to take
FairSpecStop == SpecStop /\ WF_vars(Loop)

----------------------------------------------------------------------------
(* Shorthands used by the properties *)

\* rows of a log (orders or ledger) for a symbol and a side
Rows(log, s, side) ==
    {i \in DOMAIN log :
        /\ log[i].symbol = s
        /\ (IF "action" \in DOMAIN log[i] THEN log[i].action
            ELSE log[i].order_type) = side}

----------------------------------------------------------------------------
(* C1: in every reachable state self.positions holds at most one position  *)
(* per symbol.                                                             *)
C1_OnePositionPerSymbol ==
    \A s \in Symbols : Cardinality({p \in positions : p.symbol = s}) <= 1

\* a second breakout has stored a position over a live one: two BUY rows and
\* no SELL row for a symbol that holds a position
C1_Witness ==
    \E s \in Symbols :
        /\ HasKey(positions, s)
        /\ Cardinality(Rows(ledger, s, "BUY")) >= 2
        /\ Rows(ledger, s, "SELL") = {}
        /\ pc = "manage"

(* C2: every position in the live set has stop_loss < entry < target, from *)
(* the moment it is stored.                                                *)
C2_PositionPricesOrdered ==
    \A p \in positions : p.stop_loss < p.entry /\ p.entry < p.target

(* C3: a computed quantity of 0 skips the entry: no order of quantity 0 is *)
(* ever handed to the broker and no position of quantity 0 is created.     *)
C3_NoZeroQuantity ==
    /\ \A i \in DOMAIN orders : orders[i].quantity > 0
    /\ \A p \in positions : p.quantity > 0

(* C4: the identifiers of the orders handed to the broker are strictly     *)
(* increasing in placement order, so no two orders share an identifier.    *)
C4_OrderIdsIncreasing ==
    \A i, j \in DOMAIN orders : i < j => orders[i].id < orders[j].id

(* C5: when manage_trade evaluates a position against a close that is both *)
(* >= target and <= stop_loss, the reason set is "Target reached", never   *)
(* "Stop loss hit"; the evaluation sets one reason and issues one SELL for *)
(* the position's quantity, which the ledger records with that reason      *)
(* before the position is removed.                                         *)
BothExitsHold(p, close) == close >= p.target /\ close <= p.stop_loss

C5_TargetBeatsStop ==
    /\ [][(/\ pc = "manage"
           /\ pc' # "manage"
           /\ HasKey(positions, sym)
           /\ BothExitsHold(Get(positions, sym), LastClose(current_day_data, sym)))
          => (/\ pc' = "place"
              /\ po' = [action |-> "SELL",
                        quantity |-> Get(positions, sym).quantity]
              /\ positions' = DictSet(positions, sym,
                     [Get(positions, sym) EXCEPT !.exit_reason = "Target reached"])
              /\ orders' = orders)]_vars
    /\ [][(po.action = "SELL" /\ orders' # orders)
          => (/\ pc = "place" /\ pc' = "load"
              /\ orders' = Append(orders, NewOrder(nextOrderId, sym, po)))]_vars
    /\ [](\A p \in positions :
            /\ p.exit_reason # "None" => p.symbol = sym /\ po.action = "SELL"
            /\ (p.exit_reason = "Stop loss hit"
                  => ~BothExitsHold(p, LastClose(current_day_data, p.symbol))))
    /\ [](pc = "del" =>
            /\ Get(positions, sym).exit_reason \in {"Target reached", "Stop loss hit"}
            /\ ledger[Len(ledger)] =
                   LedgerRow(sym, "SELL", LastClose(current_day_data, sym),
                             Get(positions, sym).quantity,
                             Get(positions, sym).exit_reason)
            /\ orders[Len(orders)].action = "SELL"
            /\ orders[Len(orders)].symbol = sym
            /\ orders[Len(orders)].quantity = Get(positions, sym).quantity)

\* a position whose target and stop-loss both hold at the close has been sold
\* and logged as "Target reached", and is about to be removed
C5_Witness ==
    /\ pc = "del"
    /\ BothExitsHold(Get(positions, sym), LastClose(current_day_data, sym))
    /\ ledger[Len(ledger)].reason = "Target reached"

(* C6: the ledger is written only when a position closes, one record per   *)
(* closed position: every record is the record of a close, none is written *)
(* when a position is opened, and the number of records never exceeds the  *)
(* number of SELL orders.                                                  *)
C6_RecordsOnlyOnClose ==
    /\ \A i \in DOMAIN ledger : ledger[i].order_type = "SELL"
    /\ Len(ledger) <= Cardinality({i \in DOMAIN orders : orders[i].action = "SELL"})

\* the index of the last BUY record of a symbol before record i (0: none)
LastBuyBefore(i) ==
    LET buys == {j \in 1..(i - 1) :
                    ledger[j].symbol = ledger[i].symbol
                    /\ ledger[j].order_type = "BUY"}
    IN  IF buys = {} THEN 0 ELSE CHOOSE j \in buys : \A k \in buys : k <= j

(* C7: every record persisted for a closed position carries profit_loss =  *)
(* (exit_price - entry_price) * quantity, entry_price being the price at   *)
(* which the position was bought.                                          *)
C7_RecordCarriesProfitLoss ==
    \A i \in DOMAIN ledger :
        ledger[i].order_type = "SELL"
        => /\ "profit_loss" \in DOMAIN ledger[i]
           /\ LastBuyBefore(i) # 0
           /\ ledger[i].profit_loss
                = (ledger[i].price - ledger[LastBuyBefore(i)].price)
                  * ledger[i].quantity

(* C8: check_breakout returns true exactly when the symbol has a           *)
(* historical window and current-day data, the opening candle's high is    *)
(* strictly above the window's last close, the candle's close is strictly  *)
(* above the opening high, and the candle's range is at least twice the    *)
(* mean range of the window; it returns false whenever the opening high is *)
(* not above the prior close.                                              *)
Checked == pc \in {"enter", "manage"}

C8_BreakoutExactly ==
    Checked =>
        LET window == historical_data[sym]
            n == Len(window)
            candle == new_candle
        IN  /\ breakout <=>
                 /\ n > 0
                 /\ Len(current_day_data[sym]) > 0
                 /\ window[1].High > window[n].Close
                 /\ candle.Close > window[1].High
                 /\ n * (candle.High - candle.Low) >= 2 * SumSizes(window)
            /\ (n > 0 /\ window[1].High <= window[n].Close) => ~breakout

\* a breakout was detected on a window of three candles whose mean range is
\* not a whole number
C8_Witness ==
    /\ Checked
    /\ breakout
    /\ Len(historical_data[sym]) = 3
    /\ SumSizes(historical_data[sym]) = 2

(* C9: once stop_event is set while the live loop is in its inter-cycle    *)
(* wait, the next check of the wait abandons it and the loop terminates    *)
(* without fetching or processing another candle; once stop_event is set   *)
(* at any point, the loop starts no new cycle and eventually terminates.   *)
Terminated == pc \in {"done", "crashed"}

C9_StopEndsLoop ==
    /\ [][(stop_event /\ pc = "wait")
          => (wait_i' = wait_i /\ pc' \in {"wait", "while"})]_vars
    /\ [][(stop_event /\ pc = "while" /\ pc' # pc) => pc' = "done"]_vars
    /\ [][(stop_event /\ pc \in {"wait", "while", "done"})
          => (/\ pc' \in {"wait", "while", "done"}
              /\ UNCHANGED <<dataVars, fed, new_candle>>)]_vars
    /\ [][stop_event => stop_event']_vars
    /\ (stop_event ~> Terminated)

\* the stop request arrived during the wait, after at least one second of it
\* and before its end, and the loop has returned
C9_Witness ==
    /\ stop_event
    /\ pc = "done"
    /\ wait_i > 0
    /\ wait_i < WaitSeconds

(* C10: when the fetch for a symbol returns nothing, the symbol is skipped  *)
(* for the cycle: no detector evaluation runs, positions, current-day data,*)
(* historical windows, orders and ledger are unchanged, the loop moves on  *)
(* to the next symbol of the cycle, and every cycle starts again from the  *)
(* first symbol, so the skipped symbol is fetched again in the next cycle. *)
FetchedNothing == pc = "if_candle" /\ new_candle = NoCandle

C10_FailedFetchSkipsSymbol ==
    /\ [][(pc = "for" /\ pc' = "if_candle" /\ new_candle' = NoCandle)
          => UNCHANGED <<dataVars, breakout, idx, fed>>]_vars
    /\ [][(FetchedNothing /\ pc' # pc)
          => (/\ pc' = "for"
              /\ idx' = idx + 1
              /\ UNCHANGED <<dataVars, breakout, fed>>)]_vars
    /\ [][(pc \notin {"while", "for"} /\ pc' = "for")
          => (idx' = idx + 1 /\ idx <= Len(symbols))]_vars
    /\ [][(pc = "while" /\ pc' # pc /\ ~stop_event)
          => (pc' = "for" /\ idx' = 1)]_vars
    /\ [](pc = "for" /\ idx <= Len(symbols) => ENABLED FetchNothing)
    /\ [](pc = "for" /\ idx <= Len(symbols) /\ fed < MaxCandles
            => ENABLED FetchCandle)
    /\ [](pc = "wait" => idx = Len(symbols) + 1)

\* the first symbol, which holds a position, was skipped in this cycle and the
\* second symbol's candle is being evaluated
C10_Witness ==
    /\ pc = "check"
    /\ idx = 2
    /\ HasKey(positions, symbols[1])
    /\ Len(current_day_data[symbols[1]]) = 1
    /\ fed = 2

(* C11: no error condition is fatal to the strategy loop: when the loop    *)
(* places an order while the order-id counter is still unset, the loop     *)
(* does not abort, no order reaches the broker with an unset identifier,   *)
(* and no order is dispatched without its ledger row and position update   *)
(* following.                                                              *)
C11_NoFatalError ==
    /\ pc # "crashed"
    /\ \A i \in DOMAIN orders : orders[i].id # None

\* the shares of the orders of a log for a symbol and a side
RECURSIVE Shares(_, _, _)
Shares(log, s, side) ==
    IF log = <<>> THEN 0
    ELSE (IF log[1].symbol = s /\ log[1].action = side THEN log[1].quantity ELSE 0)
         + Shares(Tail(log), s, side)

\* on_new_candle is not running
BetweenCandles == pc \in {"while", "for", "wait", "done"}

(* C12: a BUY order is emitted for a symbol only while the symbol holds no *)
(* position: per symbol the BUY and SELL orders alternate, starting with a *)
(* BUY, and between candles the shares bought minus the shares sold equal  *)
(* the quantity of the symbol's position (0 when it holds none).           *)
C12_BuyOnlyWhileFlat ==
    /\ (pc = "place" /\ po.action = "BUY") => ~HasKey(positions, sym)
    /\ \A s \in Symbols :
          /\ \A j \in Rows(orders, s, "SELL") :
                \E i \in Rows(orders, s, "BUY") : i < j
          /\ \A i, j \in Rows(orders, s, "BUY") :
                i < j => \E k \in Rows(orders, s, "SELL") : i < k /\ k < j
          /\ \A i, j \in Rows(orders, s, "SELL") :
                i < j => \E k \in Rows(orders, s, "BUY") : i < k /\ k < j
          /\ BetweenCandles =>
                Shares(orders, s, "BUY") - Shares(orders, s, "SELL")
                  = (IF HasKey(positions, s) THEN Get(positions, s).quantity ELSE 0)

\* place_order is running for a SELL
Selling == po # NoCall /\ po.action = "SELL"

(* C13: whenever a position leaves self.positions, the steps of the close  *)
(* happen in this order while one candle is processed: a SELL order for    *)
(* the position's full quantity is dispatched, then the ledger row is      *)
(* appended with the position's exit reason and the candle's close as      *)
(* price, then the position is removed; the position is still in           *)
(* self.positions, its exit reason set, when the row is written.           *)
C13_SellThenRecordThenRemove ==
    /\ [][(Selling /\ orders' # orders)
          => (/\ pc = "place" /\ pc' = "load"
              /\ HasKey(positions, sym)
              /\ Get(positions, sym).exit_reason # "None"
              /\ orders' = Append(orders,
                     NewOrder(nextOrderId, sym,
                         [action |-> "SELL",
                          quantity |-> Get(positions, sym).quantity]))
              /\ UNCHANGED <<positions, ledger>>)]_vars
    /\ [][(Selling /\ ledger' # ledger)
          => (/\ pc = "log" /\ pc' = "del"
              /\ HasKey(positions, sym)
              /\ Get(positions, sym).exit_reason \in
                     {"Target reached", "Stop loss hit"}
              /\ Last(orders).action = "SELL"
              /\ Last(orders).symbol = sym
              /\ Last(orders).quantity = Get(positions, sym).quantity
              /\ ledger' = Append(ledger,
                     LedgerRow(sym, "SELL", new_candle.Close,
                               Get(positions, sym).quantity,
                               Get(positions, sym).exit_reason))
              /\ UNCHANGED <<positions, orders>>)]_vars
    /\ [][(\E s \in Symbols : HasKey(positions, s) /\ ~HasKey(positions', s))
          => (/\ pc = "del" /\ pc' = "for"
              /\ Selling
              /\ positions' = DictDel(positions, sym)
              /\ Last(orders).action = "SELL"
              /\ Last(orders).symbol = sym
              /\ Last(orders).quantity = Get(positions, sym).quantity
              /\ Last(ledger) =
                     LedgerRow(sym, "SELL", new_candle.Close,
                               Get(positions, sym).quantity,
                               Get(positions, sym).exit_reason)
              /\ UNCHANGED <<orders, ledger>>)]_vars
    /\ [][Selling => UNCHANGED <<current_day_data, new_candle, idx, fed>>
                     \/ (pc = "del" /\ pc' = "for")]_vars
    /\ [](Selling => /\ pc \in {"place", "load", "store_id", "log", "del", "crashed"}
                     /\ new_candle # NoCandle
                     /\ Last(current_day_data[sym]) = new_candle)

\* the position of the first symbol has just been closed on its stop-loss:
\* order and row of the SELL are the last ones and the position is gone
C13_Witness ==
    /\ pc = "for"
    /\ idx = 2
    /\ ~HasKey(positions, symbols[1])
    /\ Len(orders) = 2
    /\ Last(orders).action = "SELL"
    /\ Last(ledger).order_type = "SELL"
    /\ Last(ledger).reason = "Stop loss hit"
    /\ Last(ledger).price = 1

(* C14: while a symbol holds a position, from the step that stores it to   *)
(* the step that removes it, its target and stop-loss never change,        *)
(* whatever candles arrive; the only field of it that changes is           *)
(* exit_reason, and only in the step that starts its SELL.                 *)
C14_PositionFrozen ==
    [][\A s \in Symbols :
          (HasKey(positions, s) /\ HasKey(positions', s)
             /\ Get(positions', s) # Get(positions, s))
          => (/\ Get(positions', s) =
                   [Get(positions, s) EXCEPT
                       !.exit_reason = Get(positions', s).exit_reason]
              /\ pc = "manage" /\ pc' = "place"
              /\ po'.action = "SELL")]_vars

\* the loop is at one of its symbols
AtSymbol == idx \in DOMAIN symbols

\* steps of on_new_candle that only a detected breakout or an exit leads to
Trading == pc \in {"enter", "place", "load", "store_id", "log", "store", "del"}

(* C15: for a symbol without a historical window no candle ever opens a    *)
(* position or dispatches an order: check_breakout returns false on every  *)
(* candle of it, it never holds a position, no order or ledger row names   *)
(* it, and run_simulation feeds it no candle at all.                       *)
C15_NoWindowNoTrade ==
    /\ [][(pc = "check" /\ pc' # pc /\ historical_data[sym] = <<>>)
          => (pc' = "manage" /\ ~breakout')]_vars
    /\ [][\A s \in Symbols :
            historical_data[s] = <<>> => historical_data'[s] = <<>>]_vars
    /\ [](\A s \in Symbols :
            historical_data[s] = <<>>
            => /\ ~HasKey(positions, s)
               /\ \A i \in DOMAIN orders : orders[i].symbol # s
               /\ \A i \in DOMAIN ledger : ledger[i].symbol # s
               /\ ~is_armed => current_day_data[s] = <<>>)
    /\ []((AtSymbol /\ historical_data[sym] = <<>>)
            => (/\ ~Trading
                /\ ~breakout
                /\ ~is_armed => pc \in {"range", "for", "done"}))

\* the armed loop has evaluated two candles for the second symbol, which has
\* no window, the last of them wide and closing above the opening high of the
\* first symbol's window
C15_Witness ==
    /\ is_armed
    /\ pc = "manage"
    /\ idx = 2
    /\ historical_data[sym] = <<>>
    /\ Len(current_day_data[sym]) = 2
    /\ new_candle.Close > historical_data[symbols[1]][1].High
    /\ new_candle.High - new_candle.Low >= 2

\* a position of the symbol has been closed earlier in the run
ClosedBefore(s) == Rows(ledger, s, "SELL") # {}

(* C16: there is no cooldown: once a symbol's position has been closed, a  *)
(* later candle that satisfies the breakout condition is detected as a     *)
(* breakout like any other, its BUY goes through and a new position is     *)
(* stored for the symbol.                                                  *)
C16_NoCooldown ==
    /\ [][(/\ pc = "check" /\ pc' # pc
           /\ ClosedBefore(sym)
           /\ check_breakout(historical_data, current_day_data, sym, new_candle))
          => (pc' = "enter" /\ breakout')]_vars
    /\ [][(pc = "enter" /\ pc' # pc /\ ClosedBefore(sym))
          => (pc' = "place" /\ po'.action = "BUY")]_vars
    /\ [][(pc = "store" /\ pc' # pc /\ ClosedBefore(sym))
          => (/\ HasKey(positions', sym)
              /\ Get(positions', sym).entry = new_candle.Close
              /\ Get(positions', sym).exit_reason = "None")]_vars
    /\ []((AtSymbol /\ ClosedBefore(sym)) => pc # "crashed")

\* the first symbol holds a position between candles, opened after an earlier
\* position of it was closed
C16_Witness ==
    /\ pc = "for"
    /\ HasKey(positions, symbols[1])
    /\ ClosedBefore(symbols[1])
    /\ Last(ledger).order_type = "BUY"
    /\ Last(ledger).symbol = symbols[1]

\* candles run_simulation has synthesized for a symbol so far
Synthesized(s) ==
    IF historical_data[s] = <<>> THEN 0
    ELSE Len(historical_data[s]) - Len(SimWindow)

\* the candles symbol number k is due in a period that has reached the loop's
\* present place
Due(k) ==
    IF historical_data[symbols[k]] = <<>> THEN 0
    ELSE IF pc \in {"range", "done"} THEN period
    ELSE IF k < idx \/ (k = idx /\ pc # "for") THEN period
    ELSE period - 1

(* C17: run_simulation terminates: it runs exactly simulation_periods      *)
(* periods, in each period synthesizes exactly one candle for every symbol *)
(* that has a non-empty window and hands it to on_new_candle, going        *)
(* through the symbols in file order, never waits between periods, and     *)
(* then returns.                                                           *)
C17_SimulationTerminates ==
    /\ ~is_armed ~> (pc = "done")
    /\ [](~is_armed =>
            /\ pc \in {"range", "for", "if_candle", "check", "manage", "done"}
            /\ wait_i = 0
            /\ period <= simulation_periods
            /\ pc = "done" => period = simulation_periods
            /\ \A k \in DOMAIN symbols :
                  /\ Synthesized(symbols[k]) = Due(k)
                  /\ Len(current_day_data[symbols[k]]) =
                        (IF k = idx /\ pc = "if_candle" THEN Due(k) - 1 ELSE Due(k)))
    /\ [][(~is_armed /\ pc = "range" /\ pc' # pc)
          => IF period < simulation_periods
             THEN pc' = "for" /\ idx' = 1 /\ period' = period + 1
             ELSE pc' = "done"]_vars
    /\ [][(~is_armed /\ idx' # idx) => (idx' = 1 \/ idx' = idx + 1)]_vars
    /\ [][(~is_armed /\ pc = "done")
          => UNCHANGED <<pc, period, idx, dataVars>>]_vars

\* the simulation has returned after feeding the second symbol one candle in
\* every period and the first symbol, which has no window, none
C17_Witness ==
    /\ ~is_armed
    /\ pc = "done"
    /\ period = simulation_periods
    /\ historical_data[symbols[1]] = <<>>
    /\ current_day_data[symbols[1]] = <<>>
    /\ Len(current_day_data[symbols[2]]) = simulation_periods
    /\ Synthesized(symbols[2]) = simulation_periods

\* the windows as they were before the candle being processed was appended
WindowsBefore ==
    [historical_data EXCEPT ![sym] = SubSeq(@, 1, Len(@) - 1)]

(* C18: in simulation the synthesized candle is appended to the symbol's   *)
(* window before on_new_candle evaluates it, so the window's last close is *)
(* the candle's own close, the gap filter and the breakout condition never *)
(* hold together, and in the whole run no breakout is detected, no order   *)
(* is placed, no row is logged and self.positions stays empty.             *)
C18_SimulationNeverTrades ==
    ~is_armed =>
        /\ ~breakout
        /\ ~Trading
        /\ pc # "crashed"
        /\ orders = <<>>
        /\ ledger = <<>>
        /\ positions = {}
        /\ pc \in {"if_candle", "check", "manage"} =>
              /\ Last(historical_data[sym]) = new_candle
              /\ ~(/\ historical_data[sym][1].High > Last(historical_data[sym]).Close
                   /\ new_candle.Close > historical_data[sym][1].High)
              /\ ~check_breakout(historical_data,
                                 [current_day_data EXCEPT ![sym] = <<new_candle>>],
                                 sym, new_candle)

\* the simulation has evaluated a candle that breaks out of the window as it
\* was before the candle was appended, and has detected no breakout
C18_Witness ==
    /\ ~is_armed
    /\ pc = "manage"
    /\ ~breakout
    /\ check_breakout(WindowsBefore, current_day_data, sym, new_candle)

\* the target on_new_candle gives a position of the symbol
TargetOf(s) == NewPosition(historical_data, s, NoCandle, 0).target

(* C19: whenever on_new_candle has returned for a symbol, a position the   *)
(* symbol still holds has stop_loss < latest close < target; a position    *)
(* whose entry candle closes at or above the target is closed in the       *)
(* on_new_candle call that opened it, its BUY followed at once by a SELL   *)
(* with reason "Target reached", and is never held between candles.        *)
C19_HeldPositionInsideBand ==
    /\ \A p \in positions :
          (BetweenCandles \/ p.symbol # sym)
          => /\ current_day_data[p.symbol] # <<>>
             /\ p.stop_loss < LastClose(current_day_data, p.symbol)
             /\ LastClose(current_day_data, p.symbol) < p.target
             /\ p.exit_reason = "None"
    /\ \A s \in Symbols : \A i \in Rows(ledger, s, "BUY") :
          (ledger[i].price >= TargetOf(s) /\ (BetweenCandles \/ s # sym))
          => /\ i < Len(ledger)
             /\ ledger[i + 1] = LedgerRow(s, "SELL", ledger[i].price,
                                          ledger[i].quantity, "Target reached")
             /\ i < Len(orders)
             /\ orders[i].action = "BUY" /\ orders[i].symbol = s
             /\ orders[i + 1].action = "SELL" /\ orders[i + 1].symbol = s
             /\ orders[i + 1].quantity = orders[i].quantity
    /\ (pc = "manage" /\ HasKey(positions, sym)
          /\ Get(positions, sym).entry >= Get(positions, sym).target)
       => /\ Get(positions, sym).entry = new_candle.Close
          /\ Last(ledger).order_type = "BUY"
          /\ Last(ledger).symbol = sym

\* the first symbol's entry candle closed on the target: bought and sold in one
\* on_new_candle call, and no position is held now that the call has returned
C19_Witness ==
    /\ pc = "for"
    /\ idx = 2
    /\ positions = {}
    /\ Len(ledger) = 2
    /\ ledger[1].order_type = "BUY"
    /\ ledger[1].price = TargetOf(symbols[1])
    /\ ledger[2].order_type = "SELL"
    /\ ledger[2].reason = "Target reached"

\* the entries of self.positions under a key
Entries(ps, s) == {p \in ps : p.symbol = s}

(* C20: processing a candle for one symbol leaves the position, the        *)
(* current-day data and the historical window of every other symbol        *)
(* unchanged, and every order and ledger row it adds names that symbol;    *)
(* the listener callbacks nextValidId and error change nothing except      *)
(* self.nextOrderId.                                                       *)
C20_FrameEffects ==
    /\ [][\A s \in Symbols :
            (~AtSymbol \/ s # sym)
            => /\ Entries(positions', s) = Entries(positions, s)
               /\ current_day_data'[s] = current_day_data[s]
               /\ historical_data'[s] = historical_data[s]]_vars
    /\ [][/\ orders' # orders
             => orders' = Append(orders, Last(orders')) /\ Last(orders').symbol = sym
          /\ ledger' # ledger
             => ledger' = Append(ledger, Last(ledger')) /\ Last(ledger').symbol = sym]_vars
    /\ [][(nextValidId \/ error \/ handshakes' # handshakes)
          => UNCHANGED <<dataVars, loopVars, stop_event, connected, db_open,
                         modeVars>>]_vars
    /\ [][nextOrderId' # nextOrderId
          => \/ handshakes' = handshakes + 1
             \/ pc = "store_id" /\ pc' = "log" /\ nextOrderId' = loaded + 1]_vars

\* both symbols hold a position, the second stored after the first, and the
\* listener has delivered a nextValidId while the loop was running
C20_Witness ==
    /\ pc = "for"
    /\ idx = 3
    /\ HasKey(positions, symbols[1])
    /\ HasKey(positions, symbols[2])
    /\ Len(current_day_data[symbols[1]]) = 1
    /\ Len(current_day_data[symbols[2]]) = 1
    /\ handshakes = 1

====
